---- MODULE Spec2Model ----
(***************************************************************************)
(* Message dispatch and response correlation of the remote server          *)
(* (crates/remote_server/src/remote_server.rs).                            *)
(*                                                                         *)
(* One step of the model is one poll of a request's future: the code that  *)
(* runs between two suspension points (.await) of handle_message and of    *)
(* the handler it calls.  The executor is single threaded, so such a       *)
(* segment is atomic with respect to every other request.                  *)
(*                                                                         *)
(* The outbound channel tx is modelled as the sequence of all envelopes    *)
(* ever accepted by unbounded_send; the receiving half stays open.         *)
(*                                                                         *)
(* Two further specifications share the module: RegistrySpec, the threads  *)
(* that race through Server::new and its Once, and BarSpec, the builder    *)
(* calls of the status bar (crates/ui/src/components/status_bar.rs).       *)
(***************************************************************************)
EXTENDS Integers, Sequences, FiniteSets, TLC

\* ---------------------------------------------------------------- bounds
MaxReq == 2         \* number of envelopes the transport loop hands over
MaxUpdates == 2     \* change notifications the worktrees emit in total
MaxDirLen == 2      \* entries a directory stream yields before it ends
MaxThreads == 2     \* threads that call Server::new
MaxCalls == 3       \* builder calls made on one StatusBar

Ids == 1..MaxReq            \* message ids of the inbound envelopes
WorktreeIds == 1..MaxReq    \* every request creates at most one worktree

\* ---------------------------------------------------------------- Option / Result
None == <<>>
Some(x) == <<x>>

Ok == [ok |-> TRUE]
Err(e) == [ok |-> FALSE, error |-> e]

\* anyhow::Error: a value with a description; to_string renders it.
anyhow(msg) == [description |-> msg]
to_string(error) == error.description

IoErrors == {anyhow("No such file or directory")}
AppReleased == anyhow("app was released")

\* ---------------------------------------------------------------- messages
RequestKinds ==
    {"Ping", "WriteFile", "Stat", "Canonicalize", "ReadLink", "ReadDir", "ReadFile", "AddWorktree"}
OtherKinds == {"Watch"}
Kinds == RequestKinds \cup OtherKinds

\* the entries of the directory being read, by their position in the stream
DirEntry(k) == [entry |-> k]
FsPaths == {"/p"}
FileContents == {"c"}
\* fs::Metadata; mtime is kept in microseconds since UNIX_EPOCH
Metadatas == {[is_dir |-> FALSE, is_symlink |-> TRUE, mtime |-> 3500, inode |-> 7]}
\* Duration::as_millis() as u64 (the cast truncates nothing below 2^64 ms)
as_millis(micros) == micros \div 1000
\* Path::to_string_lossy().to_string(); the paths of the model are valid UTF-8
to_string_lossy(path) == path

Ack == [type |-> "Ack"]
Error(code, tags, message) == [type |-> "Error", code |-> code, tags |-> tags, message |-> message]
StatResponse(is_dir, is_symlink, mtime, inode) ==
    [type |-> "StatResponse", is_dir |-> is_dir, is_symlink |-> is_symlink, mtime |-> mtime, inode |-> inode]
PathResponse(path) == [type |-> "PathResponse", path |-> path]
ReadDirResponse(paths) == [type |-> "ReadDirResponse", paths |-> paths]
ReadFileResponse(content) == [type |-> "ReadFileResponse", content |-> content]
AddWorktreeResponse(worktree_id) == [type |-> "AddWorktreeResponse", worktree_id |-> worktree_id]
UpdateWorktree(project_id, worktree_id, seq) ==
    [type |-> "UpdateWorktree", project_id |-> project_id, worktree_id |-> worktree_id, seq |-> seq]

ResponseTypes ==
    {"Ack", "StatResponse", "PathResponse", "ReadDirResponse", "ReadFileResponse", "AddWorktreeResponse"}

\* EnvelopedMessage::into_envelope(id, responding_to, original_sender_id)
into_envelope(payload, id, responding_to, original_sender_id) ==
    [original_sender_id |-> original_sender_id, id |-> id,
     payload |-> Some(payload), responding_to |-> responding_to]

\* ---------------------------------------------------------------- handler registry
Handlers_add(self, kind, handler) == (kind :> handler) @@ self

build_handlers ==
    Handlers_add(Handlers_add(Handlers_add(Handlers_add(
    Handlers_add(Handlers_add(Handlers_add(Handlers_add(
        [k \in {} |-> "none"],
        "Ping", "ping"),
        "WriteFile", "write_file"),
        "Stat", "stat"),
        "Canonicalize", "canonicalize"),
        "ReadLink", "read_link"),
        "ReadDir", "read_dir"),
        "ReadFile", "read_file"),
        "AddWorktree", "add_worktree")

HANDLERS == build_handlers

\* ---------------------------------------------------------------- state
VARIABLES
    message,        \* message[r]: kind of the envelope with id r, None before handle_message
    pc,             \* pc[r]: where the future of handle_message for r stands
    refs,           \* refs[r]: holders of Arc<ResponseInner> of request r
    result,         \* result[r]: what the handler's future resolved to (line 105)
    paths,          \* paths[r]: read_dir's local accumulator while the handler runs
    awaited,        \* awaited[r]: what the handler's last .await resolved to
    tx,             \* the outbound channel: every envelope sent, in order
    worktrees,      \* ServerState.worktrees
    observer,       \* observer[w]: request whose correlator the update callback of w holds
    next_model_id,  \* identifier the next worktree model gets
    emitted,        \* emitted[w]: change notifications worktree w has emitted
    forwarded,      \* forwarded[w]: notifications the callback of w has been run for
    saved,          \* WriteFile requests whose content fs.save has written
    app_released    \* the application behind AsyncAppContext has been found released

VARIABLES
    INIT_HANDLERS,   \* state of the Once guarding the registry
    HANDLERS_static, \* the static mut HANDLERS: None until the closure has written it
    built,           \* how many times build_handlers has run in this process
    thread_pc,       \* thread_pc[t]: where thread t stands in Server::new
    handlers,        \* handlers[t]: the handlers field of the Server that t constructed
    looked           \* looked[t]: the last registry lookup a dispatch on t's Server made

VARIABLES
    left_tools,      \* StatusBar.left_tools
    right_tools,     \* StatusBar.right_tools
    bottom_tools,    \* StatusBar.bottom_tools
    calls            \* the builder calls made on this StatusBar so far, in order

reqVars == <<message, pc, refs, result, paths, awaited>>
wtVars == <<worktrees, observer, next_model_id, emitted, forwarded>>
envVars == <<saved, app_released>>
serverVars == <<message, pc, refs, result, paths, awaited, tx, worktrees, observer,
                next_model_id, emitted, forwarded, saved, app_released>>
barVars == <<left_tools, right_tools, bottom_tools, calls>>
registryVars == <<INIT_HANDLERS, HANDLERS_static, built, thread_pc, handlers, looked>>
vars == <<message, pc, refs, result, paths, awaited, tx, worktrees, observer, next_model_id,
          emitted, forwarded, saved, app_released,
          INIT_HANDLERS, HANDLERS_static, built, thread_pc, handlers, looked,
          left_tools, right_tools, bottom_tools, calls>>

Init ==
    /\ message = [r \in Ids |-> None]
    /\ pc = [r \in Ids |-> "new"]
    /\ refs = [r \in Ids |-> {}]
    /\ result = [r \in Ids |-> None]
    /\ paths = [r \in Ids |-> <<>>]
    /\ awaited = [r \in Ids |-> None]
    /\ tx = <<>>
    /\ worktrees = <<>>
    /\ observer = [w \in WorktreeIds |-> None]
    /\ next_model_id = 1
    /\ emitted = [w \in WorktreeIds |-> 0]
    /\ forwarded = [w \in WorktreeIds |-> 0]
    /\ saved = {}
    /\ app_released = FALSE

\* ---------------------------------------------------------------- response correlation
\* Mutation: the channel hands the newest envelope over first.
ResponseInner_send_Front(ch, envelope) == <<envelope>> \o ch

\* ResponseInner::send
ResponseInner_send(ch, envelope) == Append(ch, envelope)

\* Mutation: the error envelope is not tied to the request.
send_error_Unsolicited(ch, id, error) ==
    Append(ch, into_envelope(Error(0, <<>>, to_string(error)), 0, None, None))

\* ResponseInner::send_error
send_error(ch, id, error) ==
    ResponseInner_send(ch, into_envelope(Error(0, <<>>, to_string(error)), 0, Some(id), None))

\* Mutation: the response is tagged with the id after the request's own.
Response_send_NextId(ch, id, payload) ==
    Append(ch, into_envelope(payload, 0, Some(id + 1), None))

\* Response<T>::send
Response_send(ch, id, payload) ==
    ResponseInner_send(ch, into_envelope(payload, 0, Some(id), None))

\* Mutation: the destructor sends nothing.
ResponseInner_drop_Silent(ch, id) == ch

\* impl Drop for ResponseInner
ResponseInner_drop(ch, id) ==
    Append(ch, [original_sender_id |-> None, id |-> 0, payload |-> None, responding_to |-> Some(id)])

\* Mutation: every release of a holder runs the destructor.
Arc_release_EveryHolder(ch, held, holder, id) ==
    IF holder \in held
    THEN Append(ch, [original_sender_id |-> None, id |-> 0, payload |-> None,
                     responding_to |-> Some(id)])
    ELSE ch

\* Mutation: the correlator is leaked, its destructor never runs.
Arc_release_Leak(ch, held, holder, id) == ch

\* Arc<ResponseInner>: releasing the last holder runs the destructor.
Arc_release(ch, held, holder, id) ==
    IF holder \in held /\ held \ {holder} = {} THEN ResponseInner_drop(ch, id) ELSE ch

\* Mutation: dispatch releases its reference before it converts the error.
Dispatch_finish_LateError(ch, id, held, res) ==
    LET c1 == Arc_release(ch, held, "handler", id)
        h1 == held \ {"handler"}
        c2 == Arc_release(c1, h1, "dispatch", id)
        c3 == IF res.ok THEN c2 ELSE send_error(c2, id, res.error)
    IN  [tx |-> c3, refs |-> h1 \ {"dispatch"}]

\* handle_message once the handler's future has resolved to res (lines 105-113):
\* the future and the Response it owns are gone, an error is converted, and
\* the function returns, which releases its own reference.
Dispatch_finish(ch, id, held, res) ==
    LET c1 == Arc_release(ch, held, "handler", id)
        h1 == held \ {"handler"}
        c2 == IF res.ok THEN c1 ELSE send_error(c1, id, res.error)
        c3 == Arc_release(c2, h1, "dispatch", id)
    IN  [tx |-> c3, refs |-> h1 \ {"dispatch"}]

\* Mutation: an unregistered kind is only completed, not reported.
Dispatch_unhandled_NoError(ch, id) ==
    [tx |-> Append(ch, [original_sender_id |-> None, id |-> 0, payload |-> None,
                        responding_to |-> Some(id)]),
     refs |-> {}]

\* handle_message when no handler is registered (lines 110-113).
Dispatch_unhandled(ch, id) ==
    LET c1 == send_error(ch, id, anyhow("unhandled request type"))
    IN  [tx |-> Arc_release(c1, {"dispatch"}, "dispatch", id), refs |-> {}]

\* The request r ends in this step with the handler's result res.
Complete(r, held, ch, res) ==
    LET f == Dispatch_finish(ch, r, held, res)
    IN  /\ tx' = f.tx
        /\ refs' = [refs EXCEPT ![r] = f.refs]
        /\ result' = [result EXCEPT ![r] = Some(res)]
        /\ pc' = [pc EXCEPT ![r] = "done"]

Running == {"dispatch", "handler"}

\* ---------------------------------------------------------------- handle_message, first poll
\* handle_message is called for the envelope with id r and payload kind kind
\* (lines 92-102): the transport loop hands the envelopes over in id order.
Received(r, kind) ==
    /\ pc[r] = "new"
    /\ \A q \in Ids : q < r => pc[q] # "new"
    /\ message' = [message EXCEPT ![r] = Some(kind)]

HasHandler(kind, handler) == kind \in DOMAIN HANDLERS /\ HANDLERS[kind] = handler

\* The handler is suspended on its first .await; dispatch and the handler's
\* Response both hold the correlator (line 105).
Suspend(r) ==
    /\ pc' = [pc EXCEPT ![r] = "fs"]
    /\ refs' = [refs EXCEPT ![r] = Running]
    /\ UNCHANGED <<result, tx>>

Suspended(r, kind) == pc[r] = "fs" /\ message[r] = Some(kind)

\* No handler registered for the kind.
handle_unhandled(r) ==
    /\ \E kind \in Kinds :
        /\ Received(r, kind)
        /\ kind \notin DOMAIN HANDLERS
    /\ LET f == Dispatch_unhandled(tx, r)
       IN  /\ tx' = f.tx
           /\ refs' = [refs EXCEPT ![r] = f.refs]
    /\ pc' = [pc EXCEPT ![r] = "done"]
    /\ UNCHANGED <<result, paths, awaited, wtVars, envVars>>

\* ---------------------------------------------------------------- ping
\* Mutation: ping sends its response and then fails.
ping_body_SendThenFail(ch, id) ==
    [tx |-> Append(ch, into_envelope(Ack, 0, Some(id), None)), res |-> Err(anyhow("pong"))]

ping_body(ch, id) == [tx |-> Response_send(ch, id, Ack), res |-> Ok]

ping(r) ==
    /\ \E kind \in Kinds : Received(r, kind) /\ HasHandler(kind, "ping")
    /\ LET b == ping_body(tx, r) IN Complete(r, Running, b.tx, b.res)
    /\ UNCHANGED <<paths, awaited, wtVars, envVars>>

\* ---------------------------------------------------------------- write_file
write_file_start(r) ==
    /\ \E kind \in Kinds : Received(r, kind) /\ HasHandler(kind, "write_file")
    /\ Suspend(r)
    /\ UNCHANGED <<paths, awaited, wtVars, envVars>>

\* Fs::save writes the content while the handler is suspended on it.
fs_save(r) ==
    /\ Suspended(r, "WriteFile")
    /\ r \notin saved
    /\ saved' = saved \cup {r}
    /\ UNCHANGED <<reqVars, tx, wtVars, app_released>>

\* The result of fs.save(..).await is the handler's result.
write_file_body(ch, id, saveResult) == [tx |-> ch, res |-> saveResult]

write_file_resume(r) ==
    /\ Suspended(r, "WriteFile")
    /\ \E saveResult \in {Ok} \cup {Err(e) : e \in IoErrors} :
        /\ saveResult.ok => r \in saved
        /\ awaited' = [awaited EXCEPT ![r] = Some(saveResult)]
        /\ LET b == write_file_body(tx, r, saveResult) IN Complete(r, refs[r], b.tx, b.res)
    /\ UNCHANGED <<message, paths, wtVars, envVars>>

\* ---------------------------------------------------------------- stat
stat_start(r) ==
    /\ \E kind \in Kinds : Received(r, kind) /\ HasHandler(kind, "stat")
    /\ Suspend(r)
    /\ UNCHANGED <<paths, awaited, wtVars, envVars>>

\* Mutation: a path without metadata is answered with an all-default StatResponse.
stat_body_DefaultMetadata(ch, id, metadata) ==
    IF ~metadata.ok THEN [tx |-> ch, res |-> metadata]
    ELSE LET m == IF metadata.value # None THEN metadata.value[1]
                  ELSE [is_dir |-> FALSE, is_symlink |-> FALSE, mtime |-> 0, inode |-> 0]
         IN  [tx |-> Append(ch, into_envelope(
                        StatResponse(m.is_dir, m.is_symlink, as_millis(m.mtime), m.inode),
                        0, Some(id), None)),
              res |-> Ok]

\* metadata: Err(e), or Ok with value None or Some(m)
stat_body(ch, id, metadata) ==
    IF ~metadata.ok THEN [tx |-> ch, res |-> metadata]
    ELSE IF metadata.value # None
         THEN LET m == metadata.value[1]
              IN  [tx |-> Response_send(ch, id,
                            StatResponse(m.is_dir, m.is_symlink, as_millis(m.mtime), m.inode)),
                   res |-> Ok]
         ELSE [tx |-> ch, res |-> Ok]

OkValue(v) == [ok |-> TRUE, value |-> v]

stat_resume(r) ==
    /\ Suspended(r, "Stat")
    /\ \E metadata \in {Err(e) : e \in IoErrors} \cup {OkValue(None)}
                        \cup {OkValue(Some(m)) : m \in Metadatas} :
        /\ awaited' = [awaited EXCEPT ![r] = Some(metadata)]
        /\ LET b == stat_body(tx, r, metadata) IN Complete(r, refs[r], b.tx, b.res)
    /\ UNCHANGED <<message, paths, wtVars, envVars>>

\* ---------------------------------------------------------------- canonicalize, read_link
canonicalize_start(r) ==
    /\ \E kind \in Kinds : Received(r, kind) /\ HasHandler(kind, "canonicalize")
    /\ Suspend(r)
    /\ UNCHANGED <<paths, awaited, wtVars, envVars>>

\* Mutation: canonicalize answers with the response of read_file.
canonicalize_body_FileResponse(ch, id, content) ==
    IF ~content.ok THEN [tx |-> ch, res |-> content]
    ELSE [tx |-> Append(ch, into_envelope(ReadFileResponse(content.value), 0, Some(id), None)),
          res |-> Ok]

canonicalize_body(ch, id, content) ==
    IF ~content.ok THEN [tx |-> ch, res |-> content]
    ELSE [tx |-> Response_send(ch, id, PathResponse(to_string_lossy(content.value))), res |-> Ok]

canonicalize_resume(r) ==
    /\ Suspended(r, "Canonicalize")
    /\ \E content \in {Err(e) : e \in IoErrors} \cup {OkValue(p) : p \in FsPaths} :
        /\ awaited' = [awaited EXCEPT ![r] = Some(content)]
        /\ LET b == canonicalize_body(tx, r, content) IN Complete(r, refs[r], b.tx, b.res)
    /\ UNCHANGED <<message, paths, wtVars, envVars>>

read_link_start(r) ==
    /\ \E kind \in Kinds : Received(r, kind) /\ HasHandler(kind, "read_link")
    /\ Suspend(r)
    /\ UNCHANGED <<paths, awaited, wtVars, envVars>>

read_link_body(ch, id, content) ==
    IF ~content.ok THEN [tx |-> ch, res |-> content]
    ELSE [tx |-> Response_send(ch, id, PathResponse(to_string_lossy(content.value))), res |-> Ok]

read_link_resume(r) ==
    /\ Suspended(r, "ReadLink")
    /\ \E content \in {Err(e) : e \in IoErrors} \cup {OkValue(p) : p \in FsPaths} :
        /\ awaited' = [awaited EXCEPT ![r] = Some(content)]
        /\ LET b == read_link_body(tx, r, content) IN Complete(r, refs[r], b.tx, b.res)
    /\ UNCHANGED <<message, paths, wtVars, envVars>>

\* ---------------------------------------------------------------- read_file
read_file_start(r) ==
    /\ \E kind \in Kinds : Received(r, kind) /\ HasHandler(kind, "read_file")
    /\ Suspend(r)
    /\ UNCHANGED <<paths, awaited, wtVars, envVars>>

read_file_body(ch, id, content) ==
    IF ~content.ok THEN [tx |-> ch, res |-> content]
    ELSE [tx |-> Response_send(ch, id, ReadFileResponse(content.value)), res |-> Ok]

read_file_resume(r) ==
    /\ Suspended(r, "ReadFile")
    /\ \E content \in {Err(e) : e \in IoErrors} \cup {OkValue(c) : c \in FileContents} :
        /\ awaited' = [awaited EXCEPT ![r] = Some(content)]
        /\ LET b == read_file_body(tx, r, content) IN Complete(r, refs[r], b.tx, b.res)
    /\ UNCHANGED <<message, paths, wtVars, envVars>>

\* ---------------------------------------------------------------- read_dir
read_dir_start(r) ==
    /\ \E kind \in Kinds : Received(r, kind) /\ HasHandler(kind, "read_dir")
    /\ Suspend(r)
    /\ UNCHANGED <<paths, awaited, wtVars, envVars>>

\* fs.read_dir(..).await? (line 201): an error ends the handler, a stream
\* starts the loop with an empty paths (line 202).
read_dir_open(r) ==
    /\ Suspended(r, "ReadDir")
    /\ \E stream \in {Err(e) : e \in IoErrors} \cup {Ok} :
        /\ awaited' = [awaited EXCEPT ![r] = Some(stream)]
        /\ IF ~stream.ok
           THEN /\ Complete(r, refs[r], tx, stream)
                /\ UNCHANGED paths
           ELSE /\ pc' = [pc EXCEPT ![r] = "stream"]
                /\ paths' = [paths EXCEPT ![r] = <<>>]
                /\ UNCHANGED <<refs, result, tx>>
    /\ UNCHANGED <<message, wtVars, envVars>>

\* What stream.next().await yields: the end of the stream or an item.
StreamEnd == [ended |-> TRUE]
StreamItem(x) == [item |-> x]

\* Mutation: an unreadable entry ends the listing with the entries read so far.
read_dir_body_Partial(ch, id, acc, next) ==
    IF next = StreamEnd \/ ~next.item.ok
    THEN [tx |-> Append(ch, into_envelope(ReadDirResponse(acc), 0, Some(id), None)),
          res |-> Some(Ok), paths |-> acc]
    ELSE [tx |-> ch, res |-> None, paths |-> Append(acc, to_string_lossy(next.item.value))]

\* One turn of the loop (lines 203-207) on next = stream.next().await:
\* the end of the stream sends the response, an Ok(path) item is pushed, an
\* Err(e) item is returned.
read_dir_body(ch, id, acc, next) ==
    IF next = StreamEnd
    THEN [tx |-> Response_send(ch, id, ReadDirResponse(acc)), res |-> Some(Ok), paths |-> acc]
    ELSE IF next.item.ok
         THEN [tx |-> ch, res |-> None, paths |-> Append(acc, to_string_lossy(next.item.value))]
         ELSE [tx |-> ch, res |-> Some(next.item), paths |-> acc]

read_dir_next(r) ==
    /\ pc[r] = "stream"
    /\ \E next \in {StreamEnd} \cup {StreamItem(Err(e)) : e \in IoErrors}
                    \cup {StreamItem(OkValue(DirEntry(Len(paths[r]) + 1)))} :
        /\ next # StreamEnd => Len(paths[r]) < MaxDirLen
        /\ awaited' = [awaited EXCEPT ![r] = Some(next)]
        /\ LET b == read_dir_body(tx, r, paths[r], next)
           IN  IF b.res = None
               THEN /\ paths' = [paths EXCEPT ![r] = b.paths]
                    /\ UNCHANGED <<pc, refs, result, tx>>
               ELSE /\ paths' = [paths EXCEPT ![r] = <<>>]
                    /\ Complete(r, refs[r], b.tx, b.res[1])
    /\ UNCHANGED <<message, wtVars, envVars>>

\* ---------------------------------------------------------------- add_worktree
\* What an access to the application finds: once it has been found released
\* it stays released, before that it may have been released in the meantime.
AppStates == IF app_released THEN {TRUE} ELSE {FALSE, TRUE}

\* state.read_with(..)? (lines 121-123) and the call of Worktree::local.
add_worktree_start(r) ==
    /\ \E kind \in Kinds : Received(r, kind) /\ HasHandler(kind, "add_worktree")
    /\ \E released \in AppStates :
        /\ app_released' = released
        /\ IF released
           THEN Complete(r, Running, tx, Err(AppReleased))
           ELSE Suspend(r)
    /\ UNCHANGED <<paths, awaited, wtVars, saved>>

\* Mutation: the worktree is answered and observed but not pushed.
add_worktree_update_NoPush(ch, id, w, obs, wts) ==
    [observer |-> [obs EXCEPT ![w] = Some(id)],
     worktrees |-> wts,
     tx |-> Append(ch, into_envelope(AddWorktreeResponse(w), 0, Some(id), None))]

\* Mutation: the worktree is pushed and answered but its updates are not observed.
add_worktree_update_NoObserve(ch, id, w, obs, wts) ==
    [observer |-> obs,
     worktrees |-> Append(wts, w),
     tx |-> Append(ch, into_envelope(AddWorktreeResponse(w), 0, Some(id), None))]

\* Mutation: the worktree is put at the front of the list.
add_worktree_update_PushFront(ch, id, w, obs, wts) ==
    [observer |-> [obs EXCEPT ![w] = Some(id)],
     worktrees |-> <<w>> \o wts,
     tx |-> Append(ch, into_envelope(AddWorktreeResponse(w), 0, Some(id), None))]

\* Mutation: the callback is registered and the worktree pushed, no response is sent.
add_worktree_update_NoReply(ch, id, w, obs, wts) ==
    [observer |-> [obs EXCEPT ![w] = Some(id)],
     worktrees |-> Append(wts, w),
     tx |-> ch]

\* The closure given to state.update (lines 133-144): the update callback is
\* registered with a clone of the correlator, the worktree is pushed and the
\* response is sent.
add_worktree_update(ch, id, w, obs, wts) ==
    [observer |-> [obs EXCEPT ![w] = Some(id)],
     worktrees |-> Append(wts, w),
     tx |-> Response_send(ch, id, AddWorktreeResponse(w))]

\* Mutation: the callback keeps no reference to the correlator.
sender_clone_NoHolder(held) == held

\* let sender = response.0.clone() (line 132): the callback becomes a holder.
sender_clone(held) == held \cup {"observer"}

\* What Worktree::local(..).await resolves to: an error, or a worktree model
\* whose identifier is the next unused model id.
Worktree_local(model_id) == {Err(e) : e \in IoErrors} \cup {OkValue(model_id)}

\* Worktree::local(..).await? has resolved (line 131); the rest of the
\* handler (lines 132-145) runs without another suspension point.
add_worktree_resume(r) ==
    /\ Suspended(r, "AddWorktree")
    /\ next_model_id \in WorktreeIds
    /\ \E worktree \in Worktree_local(next_model_id) :
        /\ awaited' = [awaited EXCEPT ![r] = Some(worktree)]
        /\ IF ~worktree.ok
           THEN /\ Complete(r, refs[r], tx, worktree)
                /\ UNCHANGED <<worktrees, observer, next_model_id, app_released>>
           ELSE /\ next_model_id' = next_model_id + 1
                /\ \E released \in AppStates :
                    /\ app_released' = released
                    /\ IF released
                       THEN /\ Complete(r, refs[r], tx, Err(AppReleased))
                            /\ UNCHANGED <<worktrees, observer>>
                       ELSE LET u == add_worktree_update(tx, r, worktree.value,
                                                         observer, worktrees)
                            IN  /\ observer' = u.observer
                                /\ worktrees' = u.worktrees
                                /\ Complete(r, sender_clone(refs[r]), u.tx, Ok)
    /\ UNCHANGED <<message, paths, emitted, forwarded, saved>>

\* ---------------------------------------------------------------- worktree updates
RECURSIVE SumOver(_, _)
SumOver(f, S) ==
    IF S = {} THEN 0 ELSE LET x == CHOOSE y \in S : TRUE IN f[x] + SumOver(f, S \ {x})

TotalEmitted == SumOver(emitted, WorktreeIds)

\* An observed worktree emits its next change notification.
worktree_emit(w) ==
    /\ observer[w] # None
    /\ TotalEmitted < MaxUpdates
    /\ emitted' = [emitted EXCEPT ![w] = @ + 1]
    /\ UNCHANGED <<reqVars, tx, worktrees, observer, next_model_id, forwarded, envVars>>

\* Mutation: the update is sent as a reply to request 0.
observe_callback_AsReply(ch, update) == Append(ch, into_envelope(update, 0, Some(0), None))

\* The callback given to observe_updates (lines 135-138).
observe_callback(ch, update) == ResponseInner_send(ch, into_envelope(update, 0, None, None))

\* observe_updates runs the callback on the oldest notification not yet forwarded.
worktree_forward(w) ==
    /\ observer[w] # None
    /\ forwarded[w] < emitted[w]
    /\ tx' = observe_callback(tx, UpdateWorktree(0, w, forwarded[w] + 1))
    /\ forwarded' = [forwarded EXCEPT ![w] = @ + 1]
    /\ UNCHANGED <<reqVars, worktrees, observer, next_model_id, emitted, envVars>>

\* ---------------------------------------------------------------- environment
\* The future of handle_message is dropped while the handler is suspended:
\* the handler's Response and dispatch's own reference are released.
drop_future(r) ==
    /\ pc[r] \in {"fs", "stream"}
    /\ tx' = Arc_release(Arc_release(tx, refs[r], "handler", r),
                         refs[r] \ {"handler"}, "dispatch", r)
    /\ refs' = [refs EXCEPT ![r] = {}]
    /\ pc' = [pc EXCEPT ![r] = "dropped"]
    /\ paths' = [paths EXCEPT ![r] = <<>>]
    /\ UNCHANGED <<message, result, awaited, wtVars, envVars>>

\* ---------------------------------------------------------------- Server::new
Threads == 1..MaxThreads

\* static mut HANDLERS = None; static INIT_HANDLERS = Once::new() (lines 36-37).
RegistryInit ==
    /\ INIT_HANDLERS = "INCOMPLETE"
    /\ HANDLERS_static = None
    /\ built = 0
    /\ thread_pc = [t \in Threads |-> "start"]
    /\ handlers = [t \in Threads |-> None]
    /\ looked = [t \in Threads |-> None]

\* The registry as every Server finds it once Server::new has returned.
RegistryPublished ==
    /\ INIT_HANDLERS = "COMPLETE"
    /\ HANDLERS_static = Some(HANDLERS)
    /\ built = 1
    /\ thread_pc = [t \in Threads |-> "serving"]
    /\ handlers = [t \in Threads |-> Some(HANDLERS)]
    /\ looked = [t \in Threads |-> None]

\* Mutation: a caller that finds the Once running runs the closure as well.
Once_call_once_Unguarded(state) == IF state = "COMPLETE" THEN "read" ELSE "init"

\* Once::call_once (line 70): where its caller goes, given the state it finds.
Once_call_once(state) ==
    CASE state = "INCOMPLETE" -> "init"
      [] state = "RUNNING" -> "waiting"
      [] OTHER -> "read"

\* Server::new enters INIT_HANDLERS.call_once (lines 69-70).
Server_new(t) ==
    /\ thread_pc[t] = "start"
    /\ thread_pc' = [thread_pc EXCEPT ![t] = Once_call_once(INIT_HANDLERS)]
    /\ INIT_HANDLERS' = IF Once_call_once(INIT_HANDLERS) = "init" THEN "RUNNING"
                        ELSE INIT_HANDLERS
    /\ UNCHANGED <<HANDLERS_static, built, handlers, looked>>

\* The closure: HANDLERS = Some(Self::build_handlers()) (line 70).
call_once_closure(t) ==
    /\ thread_pc[t] = "init"
    /\ HANDLERS_static' = Some(build_handlers)
    /\ built' = built + 1
    /\ thread_pc' = [thread_pc EXCEPT ![t] = "publish"]
    /\ UNCHANGED <<INIT_HANDLERS, handlers, looked>>

\* call_once marks the Once complete after the closure has returned.
call_once_complete(t) ==
    /\ thread_pc[t] = "publish"
    /\ INIT_HANDLERS' = "COMPLETE"
    /\ thread_pc' = [thread_pc EXCEPT ![t] = "read"]
    /\ UNCHANGED <<HANDLERS_static, built, handlers, looked>>

\* A caller blocked in call_once goes on once the Once is complete.
call_once_wait(t) ==
    /\ thread_pc[t] = "waiting"
    /\ INIT_HANDLERS = "COMPLETE"
    /\ thread_pc' = [thread_pc EXCEPT ![t] = "read"]
    /\ UNCHANGED <<INIT_HANDLERS, HANDLERS_static, built, handlers, looked>>

\* HANDLERS.as_ref().unwrap() (line 71) and the Server built from it (lines 73-77);
\* unwrap panics on None.
Server_new_return(t) ==
    /\ thread_pc[t] = "read"
    /\ IF HANDLERS_static = None
       THEN /\ thread_pc' = [thread_pc EXCEPT ![t] = "panicked"]
            /\ UNCHANGED handlers
       ELSE /\ thread_pc' = [thread_pc EXCEPT ![t] = "serving"]
            /\ handlers' = [handlers EXCEPT ![t] = HANDLERS_static]
    /\ UNCHANGED <<INIT_HANDLERS, HANDLERS_static, built, looked>>

\* self.handlers.0.get(&type_id) in handle_message (line 102).
Handlers_get(t, kind) ==
    /\ thread_pc[t] = "serving"
    /\ looked' = [looked EXCEPT ![t] =
                     Some([kind |-> kind, found |-> kind \in DOMAIN handlers[t][1]])]
    /\ UNCHANGED <<INIT_HANDLERS, HANDLERS_static, built, thread_pc, handlers>>

RegistryFrame == UNCHANGED <<serverVars, barVars>>

RegistryNext ==
    \/ \E t \in Threads : Server_new(t) /\ RegistryFrame
    \/ \E t \in Threads : call_once_closure(t) /\ RegistryFrame
    \/ \E t \in Threads : call_once_complete(t) /\ RegistryFrame
    \/ \E t \in Threads : call_once_wait(t) /\ RegistryFrame
    \/ \E t \in Threads : Server_new_return(t) /\ RegistryFrame
    \/ \E t \in Threads, kind \in Kinds : Handlers_get(t, kind) /\ RegistryFrame

\* ---------------------------------------------------------------- StatusBar
Tools == {"ProjectPanel", "CollaborationPanel", "Terminal", "Assistant", "Feedback",
          "Diagnostics"}
ActiveIndexes == {None, Some(0)}

ToolGroup(active_index, tools) == [active_index |-> active_index, tools |-> tools]
ToolGroup_default == ToolGroup(None, <<>>)
unwrap_or_default(group) == IF group = None THEN ToolGroup_default ELSE group[1]

\* status_bar()
BarInit ==
    /\ left_tools = None
    /\ right_tools = None
    /\ bottom_tools = None
    /\ calls = <<>>

Call(group, tool, active_index) ==
    [group |-> group, tool |-> tool, active_index |-> active_index]

\* The block every builder assigns to its field: the new tool, then the tools
\* of self.left_tools.take().unwrap_or_default().
prepended(tool, active_index, taken) ==
    Some(ToolGroup(active_index, <<tool>> \o unwrap_or_default(taken).tools))

\* StatusBar::left_tool
left_tool(tool, active_index) ==
    /\ Len(calls) < MaxCalls
    /\ left_tools' = prepended(tool, active_index, left_tools)
    /\ UNCHANGED <<right_tools, bottom_tools>>
    /\ calls' = Append(calls, Call("left", tool, active_index))

\* StatusBar::right_tool: take() leaves None in self.left_tools.
right_tool(tool, active_index) ==
    /\ Len(calls) < MaxCalls
    /\ right_tools' = prepended(tool, active_index, left_tools)
    /\ left_tools' = None
    /\ UNCHANGED bottom_tools
    /\ calls' = Append(calls, Call("right", tool, active_index))

\* StatusBar::bottom_tool: take() leaves None in self.left_tools.
bottom_tool(tool, active_index) ==
    /\ Len(calls) < MaxCalls
    /\ bottom_tools' = prepended(tool, active_index, left_tools)
    /\ left_tools' = None
    /\ UNCHANGED right_tools
    /\ calls' = Append(calls, Call("bottom", tool, active_index))

BarFrame == UNCHANGED <<serverVars, registryVars>>

BarNext ==
    \/ \E tool \in Tools, active_index \in ActiveIndexes :
          left_tool(tool, active_index) /\ BarFrame
    \/ \E tool \in Tools, active_index \in ActiveIndexes :
          right_tool(tool, active_index) /\ BarFrame
    \/ \E tool \in Tools, active_index \in ActiveIndexes :
          bottom_tool(tool, active_index) /\ BarFrame

\* The three components start together: no request received, the registry as
\* given, a fresh StatusBar.
RegistryStart == Init /\ RegistryInit /\ BarInit
BarStart == Init /\ RegistryPublished /\ BarInit
ServerStart == Init /\ RegistryPublished /\ BarInit

\* Threads racing through Server::new and then dispatching, with no request in flight.
RegistrySpec == RegistryStart /\ [][RegistryNext]_vars

\* Builder calls on one StatusBar.
BarSpec == BarStart /\ [][BarNext]_vars

\* Every step of the server leaves the registry and the status bar alone.
ServerFrame == UNCHANGED <<registryVars, barVars>>

\* ---------------------------------------------------------------- next-state relation
Next ==
    \/ \E r \in Ids : handle_unhandled(r) /\ ServerFrame
    \/ \E r \in Ids : ping(r) /\ ServerFrame
    \/ \E r \in Ids : write_file_start(r) /\ ServerFrame
    \/ \E r \in Ids : fs_save(r) /\ ServerFrame
    \/ \E r \in Ids : write_file_resume(r) /\ ServerFrame
    \/ \E r \in Ids : stat_start(r) /\ ServerFrame
    \/ \E r \in Ids : stat_resume(r) /\ ServerFrame
    \/ \E r \in Ids : canonicalize_start(r) /\ ServerFrame
    \/ \E r \in Ids : canonicalize_resume(r) /\ ServerFrame
    \/ \E r \in Ids : read_link_start(r) /\ ServerFrame
    \/ \E r \in Ids : read_link_resume(r) /\ ServerFrame
    \/ \E r \in Ids : read_file_start(r) /\ ServerFrame
    \/ \E r \in Ids : read_file_resume(r) /\ ServerFrame
    \/ \E r \in Ids : read_dir_start(r) /\ ServerFrame
    \/ \E r \in Ids : read_dir_open(r) /\ ServerFrame
    \/ \E r \in Ids : read_dir_next(r) /\ ServerFrame
    \/ \E r \in Ids : add_worktree_start(r) /\ ServerFrame
    \/ \E r \in Ids : add_worktree_resume(r) /\ ServerFrame
    \/ \E w \in WorktreeIds : worktree_emit(w) /\ ServerFrame
    \/ \E w \in WorktreeIds : worktree_forward(w) /\ ServerFrame
    \/ \E r \in Ids : drop_future(r) /\ ServerFrame

\* Requests handled by a Server whose construction has returned.
Spec == ServerStart /\ [][Next]_vars

TypeOK ==
    /\ pc \in [Ids -> {"new", "fs", "stream", "done", "dropped"}]
    /\ \A r \in Ids : refs[r] \subseteq {"dispatch", "handler", "observer"}
    /\ next_model_id \in 1..(MaxReq + 1)
    /\ saved \subseteq Ids

\* A poll of the future of request r after its first one.
Poll(r) ==
    \/ write_file_resume(r)
    \/ stat_resume(r)
    \/ canonicalize_resume(r)
    \/ read_link_resume(r)
    \/ read_file_resume(r)
    \/ read_dir_open(r)
    \/ read_dir_next(r)
    \/ add_worktree_resume(r)

\* The executor keeps running the tasks that can run: a suspended request is
\* polled again, the task observing a worktree runs its callback.
LiveSpec ==
    /\ Spec
    /\ WF_vars(ServerFrame /\ \E r \in Ids : Poll(r))
    /\ WF_vars(ServerFrame /\ \E w \in WorktreeIds : worktree_forward(w))

\* ---------------------------------------------------------------- observations
\* The frames on the outbound channel that answer request r, in order.
FramesFor(r) == SelectSeq(tx, LAMBDA e : e.responding_to = Some(r))
IsMarker(e) == e.payload = None
IsError(e) == e.payload # None /\ e.payload[1].type = "Error"
IsResponse(e) == e.payload # None /\ e.payload[1].type \in ResponseTypes
PayloadFrames(r) == SelectSeq(FramesFor(r), LAMBDA e : ~IsMarker(e))
MarkerFrames(r) == SelectSeq(FramesFor(r), IsMarker)
ErrorFrames(r) == SelectSeq(FramesFor(r), IsError)
ResponseFrames(r) == SelectSeq(FramesFor(r), IsResponse)

Returned(r) == pc[r] = "done"
Unregistered(r) == message[r] # None /\ message[r][1] \notin RequestKinds
Failed(r) == result[r] # None /\ ~result[r][1].ok
Succeeded(r) == result[r] # None /\ result[r][1].ok
KindIs(r, kind) == message[r] = Some(kind)
\* The handler returned Ok(()) on a path without a call of send.
SilentSuccess(r) ==
    /\ Succeeded(r)
    /\ \/ KindIs(r, "WriteFile")
       \/ KindIs(r, "Stat") /\ awaited[r] = Some(OkValue(None))
\* The update callback of a worktree still holds the correlator of r.
HeldByObserver(r) == \E w \in WorktreeIds : observer[w] = Some(r)

\* ---------------------------------------------------------------- C1
\* C1 as stated: over the lifetime of a request passed to handle_message,
\* exactly one frame with responding_to = R is placed on the outbound channel.
C1_ExactlyOneFrame ==
    \A r \in Ids :
        /\ Len(FramesFor(r)) <= 1
        /\ Returned(r) => Len(FramesFor(r)) = 1

\* C1 as amended: at most one payload-bearing frame and at most one empty
\* completion marker answer R, the marker last; once handle_message has
\* returned, the marker is there unless an update callback holds the
\* correlator, and a payload frame is there unless the handler succeeded
\* without sending: one frame for a silent success or a successful
\* add_worktree, two frames (payload, marker) otherwise.
C1_TerminalFrames ==
    \A r \in Ids :
        /\ Len(PayloadFrames(r)) <= 1
        /\ Len(MarkerFrames(r)) <= 1
        /\ FramesFor(r) = PayloadFrames(r) \o MarkerFrames(r)
        /\ Returned(r) =>
            /\ Len(MarkerFrames(r)) = (IF HeldByObserver(r) THEN 0 ELSE 1)
            /\ Len(PayloadFrames(r)) = (IF SilentSuccess(r) THEN 0 ELSE 1)

\* Two requests have returned, one answered by two frames and one by one.
C1_Witness ==
    \E r, q \in Ids :
        /\ Returned(r) /\ Returned(q)
        /\ Len(FramesFor(r)) = 2 /\ Succeeded(r)
        /\ Len(FramesFor(q)) = 1 /\ SilentSuccess(q)

\* ---------------------------------------------------------------- C2
\* C2: once the handler's future has resolved (to success or to an error), or
\* no handler is registered, a frame with responding_to = R is eventually on
\* the outbound channel.
C2_EventuallyAnswered ==
    \A r \in Ids : Returned(r) ~> (Len(FramesFor(r)) >= 1)

\* A handler that never sends has succeeded and its request is answered.
C2_Witness ==
    \E r \in Ids : Returned(r) /\ SilentSuccess(r) /\ Len(FramesFor(r)) >= 1

\* ---------------------------------------------------------------- C3
\* C3: at most one payload-bearing frame (response or error) is ever produced
\* for a request id.
C3_AtMostOnePayload ==
    \A r \in Ids : Len(ResponseFrames(r)) + Len(ErrorFrames(r)) <= 1

\* A handler sent its response after a suspension point and returned.
C3_Witness ==
    \E r \in Ids :
        /\ Returned(r)
        /\ awaited[r] # None
        /\ Len(ResponseFrames(r)) = 1
        /\ Len(ErrorFrames(r)) = 0

\* ---------------------------------------------------------------- C4
UnhandledFrame(r) ==
    [original_sender_id |-> None, id |-> 0, responding_to |-> Some(r),
     payload |-> Some([type |-> "Error", code |-> 0, tags |-> <<>>,
                       message |-> "unhandled request type"])]

\* C4: the step of handle_message for a kind without a registered handler
\* puts the error frame "unhandled request type" with responding_to = R on
\* the channel, invokes no handler (the request never suspends and has no
\* handler result) and leaves Server State as it is.
C4_UnhandledKind ==
    [][\A r \in Ids :
        (pc[r] = "new" /\ pc'[r] # "new" /\ message'[r][1] \notin RequestKinds) =>
            /\ Len(tx') > Len(tx)
            /\ tx'[Len(tx) + 1] = UnhandledFrame(r)
            /\ SubSeq(tx', 1, Len(tx)) = tx
            /\ pc'[r] = "done"
            /\ result'[r] = None /\ awaited'[r] = None
            /\ worktrees' = worktrees
            /\ observer' = observer
            /\ next_model_id' = next_model_id]_vars

\* An unregistered kind has been answered while Server State is not empty.
C4_Witness ==
    \E r \in Ids :
        /\ Unregistered(r) /\ Returned(r)
        /\ ErrorFrames(r) = <<UnhandledFrame(r)>>
        /\ Len(worktrees) > 0

\* ---------------------------------------------------------------- C5
ErrorFrame(r, description) ==
    [original_sender_id |-> None, id |-> 0, responding_to |-> Some(r),
     payload |-> Some([type |-> "Error", code |-> 0, tags |-> <<>>, message |-> description])]

\* C5: when a registered handler's future resolves to an error, the error
\* frame for R carries the error's description, code 0 and no tags, and no
\* response payload is emitted for R.
C5_HandlerError ==
    \A r \in Ids :
        (Returned(r) /\ Failed(r)) =>
            /\ ErrorFrames(r) = <<ErrorFrame(r, result[r][1].error.description)>>
            /\ ResponseFrames(r) = <<>>

\* Two handlers failed with different errors.
C5_Witness ==
    \E r, q \in Ids :
        /\ Returned(r) /\ Failed(r) /\ result[r][1].error \in IoErrors
        /\ Returned(q) /\ Failed(q) /\ result[q][1].error = AppReleased
        /\ Len(ErrorFrames(r)) = 1 /\ Len(ErrorFrames(q)) = 1

\* ---------------------------------------------------------------- C6
Marker(r) == [original_sender_id |-> None, id |-> 0, payload |-> None, responding_to |-> Some(r)]

\* C6: when a handler returns success without calling send (stat on a path
\* without metadata, a successful write_file), the one frame with
\* responding_to = R is an empty completion marker.
C6_SilentSuccess ==
    \A r \in Ids :
        (Returned(r) /\ SilentSuccess(r)) => FramesFor(r) = <<Marker(r)>>

\* Both a stat without metadata and a write_file have succeeded.
C6_Witness ==
    \E r, q \in Ids :
        /\ Returned(r) /\ SilentSuccess(r) /\ KindIs(r, "Stat")
        /\ Returned(q) /\ SilentSuccess(q) /\ KindIs(q, "WriteFile") /\ q \in saved

\* ---------------------------------------------------------------- C7
\* C7: the step that drops the future of a suspended request R places the
\* empty completion marker for R on the channel and undoes no side effect:
\* what fs.save has written and what Server State holds stay as they are.
C7_DroppedFuture ==
    [][\A r \in Ids :
        (pc[r] \in {"fs", "stream"} /\ pc'[r] = "dropped") =>
            /\ tx' = Append(tx, Marker(r))
            /\ saved' = saved
            /\ worktrees' = worktrees
            /\ observer' = observer]_vars

\* A write_file was dropped after fs.save had written its content.
C7_Witness ==
    \E r \in Ids :
        /\ pc[r] = "dropped"
        /\ r \in saved
        /\ FramesFor(r) = <<Marker(r)>>

\* ---------------------------------------------------------------- C8
AddWorktreeRequests == {r \in Ids : KindIs(r, "AddWorktree")}
AddWorktreeFrames ==
    SelectSeq(tx, LAMBDA e : e.payload # None /\ e.payload[1].type = "AddWorktreeResponse")
FrameWorktreeIds == {AddWorktreeFrames[i].payload[1].worktree_id : i \in 1..Len(AddWorktreeFrames)}
ListedWorktrees == {worktrees[i] : i \in 1..Len(worktrees)}

\* C8: the AddWorktree requests that have succeeded, however they were
\* interleaved, have each exactly one AddWorktreeResponse, the identifiers in
\* these frames are pairwise distinct, and the worktree list has exactly one
\* entry for each of them.
C8_ConcurrentAddWorktree ==
    LET succeeded == {r \in AddWorktreeRequests : Returned(r) /\ Succeeded(r)}
    IN  /\ \A r \in succeeded : Len(ResponseFrames(r)) = 1
        /\ Len(AddWorktreeFrames) = Cardinality(succeeded)
        /\ Cardinality(FrameWorktreeIds) = Len(AddWorktreeFrames)
        /\ Len(worktrees) = Cardinality(succeeded)
        /\ Cardinality(ListedWorktrees) = Len(worktrees)

\* MaxReq AddWorktree requests were in flight together and finished in the
\* reverse of the order they arrived in.
C8_Witness ==
    /\ AddWorktreeRequests = Ids
    /\ \A r \in Ids : Returned(r) /\ Succeeded(r)
    /\ Len(worktrees) = MaxReq
    /\ \A i \in 1..MaxReq : observer[worktrees[i]] = Some(MaxReq + 1 - i)

\* ---------------------------------------------------------------- C9
\* C9: in every reachable state a worktree is in the worktree list if and
\* only if its update callback is registered, and if and only if its
\* AddWorktreeResponse has been sent.
C9_AtomicRegistration ==
    \A w \in WorktreeIds :
        /\ (w \in ListedWorktrees) <=> (observer[w] # None)
        /\ (w \in ListedWorktrees) <=> (w \in FrameWorktreeIds)

\* One add_worktree has completed its update while another is suspended.
C9_Witness ==
    \E r, q \in Ids :
        /\ KindIs(r, "AddWorktree") /\ pc[r] = "fs"
        /\ KindIs(q, "AddWorktree") /\ Returned(q) /\ HeldByObserver(q)
        /\ Len(worktrees) = 1

\* ---------------------------------------------------------------- C10
UpdateFrames(w) ==
    SelectSeq(tx, LAMBDA e : /\ e.payload # None
                             /\ e.payload[1].type = "UpdateWorktree"
                             /\ e.payload[1].worktree_id = w)

\* C10: the update envelopes of one worktree are on the channel in the order
\* of its change notifications: the k-th of them is the k-th notification,
\* and they are exactly the notifications the callback has been run for.
C10_UpdateOrder ==
    \A w \in WorktreeIds :
        /\ Len(UpdateFrames(w)) = forwarded[w]
        /\ \A k \in 1..Len(UpdateFrames(w)) : UpdateFrames(w)[k].payload[1].seq = k

\* Two updates of one worktree are on the channel with a frame of another
\* request between them.
C10_Witness ==
    \E w \in WorktreeIds : \E i, j, k \in 1..Len(tx) :
        /\ i < j /\ j < k
        /\ tx[i] \in {UpdateFrames(w)[n] : n \in 1..Len(UpdateFrames(w))}
        /\ tx[k] \in {UpdateFrames(w)[n] : n \in 1..Len(UpdateFrames(w))}
        /\ tx[i] # tx[k]
        /\ tx[j].responding_to # None
        /\ tx[j].responding_to # observer[w]

\* ---------------------------------------------------------------- C11
IsUpdate(e) == e.payload # None /\ e.payload[1].type = "UpdateWorktree"

\* C11: every envelope pushed by a worktree's update callback has
\* responding_to = None; no frame that answers a request is a worktree update.
C11_UpdatesUnsolicited ==
    \A i \in 1..Len(tx) : IsUpdate(tx[i]) => tx[i].responding_to = None

\* An update of a worktree is on the channel after the response that created it.
C11_Witness ==
    \E i, k \in 1..Len(tx) :
        /\ i < k
        /\ tx[i].responding_to # None /\ IsResponse(tx[i])
        /\ tx[i].payload[1].type = "AddWorktreeResponse"
        /\ IsUpdate(tx[k])
        /\ tx[k].payload[1].worktree_id = tx[i].payload[1].worktree_id

\* ---------------------------------------------------------------- C12
\* The response kind each request kind declares (RequestMessage::Response).
DeclaredResponse(kind) ==
    CASE kind = "Ping" -> {"Ack"}
      [] kind = "Stat" -> {"StatResponse"}
      [] kind \in {"Canonicalize", "ReadLink"} -> {"PathResponse"}
      [] kind = "ReadDir" -> {"ReadDirResponse"}
      [] kind = "ReadFile" -> {"ReadFileResponse"}
      [] kind = "AddWorktree" -> {"AddWorktreeResponse"}
      [] OTHER -> {}

\* C12: every payload-bearing frame for R that is not an error carries the
\* response kind the kind of request R declares; WriteFile gets no payload.
C12_DeclaredResponseKind ==
    \A i \in 1..Len(tx) :
        (tx[i].responding_to # None /\ tx[i].payload # None /\ ~IsError(tx[i])) =>
            LET r == tx[i].responding_to[1]
            IN  /\ r \in Ids
                /\ message[r] # None
                /\ tx[i].payload[1].type \in DeclaredResponse(message[r][1])

\* Two requests of different kinds have each been answered with a response.
C12_Witness ==
    \E r, q \in Ids :
        /\ message[r] # message[q]
        /\ Len(ResponseFrames(r)) = 1
        /\ Len(ResponseFrames(q)) = 1

\* ---------------------------------------------------------------- C13
\* This step is the completion of a successful add_worktree for r.
AddWorktreeSucceeds(r) ==
    /\ KindIs(r, "AddWorktree") /\ pc[r] = "fs"
    /\ pc'[r] = "done" /\ result'[r] = Some(Ok)

\* C13: in every step the worktree list stays as it is, or grows by one entry
\* at its end in the step in which an add_worktree succeeds; every other
\* handler step, the unhandled branch and a failing add_worktree leave it
\* unchanged.
C13_AppendOnly ==
    [][\/ /\ worktrees' = worktrees
          /\ ~ \E r \in Ids : AddWorktreeSucceeds(r)
       \/ /\ \E r \in Ids : AddWorktreeSucceeds(r)
          /\ Len(worktrees') = Len(worktrees) + 1
          /\ SubSeq(worktrees', 1, Len(worktrees)) = worktrees]_vars

\* The list has grown while another add_worktree has failed.
C13_Witness ==
    \E r, q \in Ids :
        /\ KindIs(r, "AddWorktree") /\ Returned(r) /\ Failed(r)
        /\ KindIs(q, "AddWorktree") /\ Returned(q) /\ Succeeded(q)
        /\ Len(worktrees) = 1

\* ---------------------------------------------------------------- C14
\* A thread past call_once, or a Server it built.
PastCallOnce(t) == thread_pc[t] \in {"read", "serving"}

RegistryState ==
    /\ built <= 1
    /\ HANDLERS_static # None =>
          /\ built = 1
          /\ DOMAIN HANDLERS_static[1] = RequestKinds
    /\ \A t \in Threads :
          /\ thread_pc[t] # "panicked"
          /\ PastCallOnce(t) => INIT_HANDLERS = "COMPLETE" /\ HANDLERS_static # None
          /\ handlers[t] # None => handlers[t] = HANDLERS_static
          /\ looked[t] # None =>
                /\ INIT_HANDLERS = "COMPLETE" /\ built = 1
                /\ looked[t][1].found <=> looked[t][1].kind \in RequestKinds

\* C14: build_handlers runs at most once however the calls of Server::new
\* interleave; a caller gets past call_once only when the Once is complete and
\* the registry is written, every Server holds that one published registry,
\* every lookup of a dispatch happens after construction and finds exactly the
\* eight request kinds, and once written the registry never changes.
C14_RegistryOnce ==
    /\ []RegistryState
    /\ [][HANDLERS_static # None => HANDLERS_static' = HANDLERS_static]_vars

\* Two calls race: one has written the registry and not yet completed the
\* Once, another is blocked in call_once.
C14_Witness ==
    \E t, u \in Threads :
        /\ thread_pc[t] = "publish" /\ thread_pc[u] = "waiting"
        /\ built = 1 /\ INIT_HANDLERS = "RUNNING"

\* ---------------------------------------------------------------- C15
\* The step is one of the read_dir handler of r: it resolves an .await.
ReadDirStep(r) ==
    /\ KindIs(r, "ReadDir")
    /\ pc[r] \in {"fs", "stream"}
    /\ pc'[r] # "dropped"
    /\ pc'[r] # pc[r] \/ paths'[r] # paths[r]

ReadDirFrame(r, listed) ==
    [original_sender_id |-> None, id |-> 0, responding_to |-> Some(r),
     payload |-> Some([type |-> "ReadDirResponse", paths |-> listed])]

\* The frames for r after the step.
FramesAfter(r) == SelectSeq(tx', LAMBDA e : e.responding_to = Some(r))

\* C15: read_dir sends nothing while it drains the stream; an entry that is
\* read is appended to the list and nothing is sent; an error of opening the
\* directory or of an entry ends the handler with that error in the error
\* frame and no ReadDirResponse; the end of the stream sends the one response,
\* which lists every entry read, in the order of the stream.
C15_ReadDirDrains ==
    [][\A r \in Ids : ReadDirStep(r) =>
          LET next == awaited'[r][1]
          IN  /\ FramesFor(r) = <<>>
              /\ pc[r] = "fs" =>
                    IF next.ok
                    THEN tx' = tx /\ pc'[r] = "stream" /\ paths'[r] = <<>>
                    ELSE FramesAfter(r) = <<ErrorFrame(r, next.error.description), Marker(r)>>
              /\ pc[r] = "stream" =>
                    CASE next = StreamEnd ->
                           /\ FramesAfter(r) = <<ReadDirFrame(r, paths[r]), Marker(r)>>
                           /\ paths[r] = [i \in 1..Len(paths[r]) |-> DirEntry(i)]
                      [] next # StreamEnd /\ next.item.ok ->
                           /\ tx' = tx /\ pc'[r] = "stream"
                           /\ paths'[r] = Append(paths[r], next.item.value)
                      [] OTHER ->
                           FramesAfter(r) =
                               <<ErrorFrame(r, next.item.error.description), Marker(r)>>]_vars

\* One read_dir failed on an entry of its stream, another listed two entries.
C15_Witness ==
    \E r, q \in Ids :
        /\ KindIs(r, "ReadDir") /\ Returned(r) /\ Failed(r)
        /\ awaited[r] = Some(StreamItem(result[r][1]))
        /\ KindIs(q, "ReadDir") /\ Returned(q) /\ Succeeded(q)
        /\ FramesFor(q) = <<ReadDirFrame(q, <<DirEntry(1), DirEntry(2)>>), Marker(q)>>
        /\ FramesFor(r) = <<ErrorFrame(r, result[r][1].error.description), Marker(r)>>

\* ---------------------------------------------------------------- C16
\* Frame e is the AddWorktreeResponse that announces worktree w.
Announces(e, w) ==
    /\ IsResponse(e) /\ e.responding_to # None
    /\ e.payload[1].type = "AddWorktreeResponse"
    /\ e.payload[1].worktree_id = w
    /\ KindIs(e.responding_to[1], "AddWorktree")
    /\ Succeeded(e.responding_to[1])

\* C16: every update envelope of a worktree comes after the AddWorktreeResponse
\* of the successful request that created that worktree; a failed AddWorktree
\* has no worktree observed on its behalf and so no update.
C16_ResponseBeforeUpdates ==
    /\ \A k \in 1..Len(tx) :
          IsUpdate(tx[k]) =>
              \E i \in 1..(k - 1) : Announces(tx[i], tx[k].payload[1].worktree_id)
    /\ \A r \in Ids :
          (KindIs(r, "AddWorktree") /\ Failed(r)) =>
              /\ ~HeldByObserver(r)
              /\ \A k \in 1..Len(tx) :
                    IsUpdate(tx[k]) => observer[tx[k].payload[1].worktree_id] # Some(r)

\* A worktree has pushed an update after its response while another
\* AddWorktree failed.
C16_Witness ==
    \E r, q \in Ids : \E i, k \in 1..Len(tx) :
        /\ KindIs(r, "AddWorktree") /\ Failed(r)
        /\ i < k
        /\ tx[i].responding_to = Some(q)
        /\ IsUpdate(tx[k])
        /\ Announces(tx[i], tx[k].payload[1].worktree_id)

\* ---------------------------------------------------------------- C17
\* C17: on the channel no frame for R follows the empty completion marker for
\* R: every response or error frame for R is before it, at most one marker is
\* placed, and nothing for R is placed afterwards.
C17_MarkerLast ==
    \A i, k \in 1..Len(tx) :
        (i < k /\ IsMarker(tx[i]) /\ tx[i].responding_to # None) =>
            tx[k].responding_to # tx[i].responding_to

\* An error frame and a response frame, each followed by the marker of its
\* request.
C17_Witness ==
    \E r, q \in Ids :
        /\ r # q
        /\ Len(FramesFor(r)) = 2 /\ IsError(FramesFor(r)[1]) /\ IsMarker(FramesFor(r)[2])
        /\ Len(FramesFor(q)) = 2 /\ IsResponse(FramesFor(q)[1]) /\ IsMarker(FramesFor(q)[2])

\* ---------------------------------------------------------------- C18
AddWorktreeFrame(r, w) ==
    [original_sender_id |-> None, id |-> 0, responding_to |-> Some(r),
     payload |-> Some([type |-> "AddWorktreeResponse", worktree_id |-> w])]

\* C18: once add_worktree has succeeded for R and handle_message has returned,
\* the update callback is the one remaining holder of R's correlator; the
\* worktree it observes is in Server State, the only frame for R is the
\* AddWorktreeResponse, no marker for R is on the channel, and the release of
\* the callback's reference is what places the marker.
C18_SubscriptionHoldsCorrelator ==
    \A r \in Ids :
        (KindIs(r, "AddWorktree") /\ Returned(r) /\ Succeeded(r)) =>
            /\ refs[r] = {"observer"}
            /\ \E w \in WorktreeIds :
                  /\ observer[w] = Some(r)
                  /\ \E i \in 1..Len(worktrees) : worktrees[i] = w
                  /\ FramesFor(r) = <<AddWorktreeFrame(r, w)>>
            /\ MarkerFrames(r) = <<>>
            /\ Arc_release(tx, refs[r], "observer", r) = Append(tx, Marker(r))

\* The handler has returned, the subscription has pushed every update the
\* worktree emitted, and still no marker for the request is on the channel.
C18_Witness ==
    \E r \in Ids : \E w \in WorktreeIds :
        /\ KindIs(r, "AddWorktree") /\ Returned(r) /\ Succeeded(r)
        /\ observer[w] = Some(r)
        /\ forwarded[w] = MaxUpdates
        /\ MarkerFrames(r) = <<>>

\* ---------------------------------------------------------------- C19
\* The step is one of the handling of request r and of no other request.
StepOf(r) == pc'[r] # pc[r] /\ \A q \in Ids \ {r} : pc'[q] = pc[q]

\* C19: the channel only grows, and every frame a step adds with
\* responding_to = R is added by a step of the handling of R, whose id was
\* passed to handle_message; a step of one request adds no frame tagged with
\* the id of another.
C19_CorrelationIntegrity ==
    [][/\ Len(tx') >= Len(tx)
       /\ SubSeq(tx', 1, Len(tx)) = tx
       /\ \A k \in (Len(tx) + 1)..Len(tx') :
             tx'[k].responding_to # None =>
                 LET id == tx'[k].responding_to[1]
                 IN  /\ id \in Ids
                     /\ message'[id] # None
                     /\ StepOf(id)]_vars

\* Two requests were in flight together and the later one was answered first.
C19_Witness ==
    \E r, q \in Ids : \E i, k \in 1..Len(tx) :
        /\ r < q /\ i < k
        /\ tx[i].responding_to = Some(q) /\ tx[i].payload # None
        /\ tx[k].responding_to = Some(r) /\ tx[k].payload # None
        /\ awaited[r] # None /\ awaited[q] # None

\* ---------------------------------------------------------------- C20
\* The calls made on one group, in order.
GroupCalls(group) == SelectSeq(calls, LAMBDA c : c.group = group)

\* The tools of the calls made on one group, most recent first.
MostRecentFirst(group) ==
    LET cs == GroupCalls(group)
    IN  [i \in 1..Len(cs) |-> cs[Len(cs) + 1 - i].tool]

\* C20 as stated: after any sequence of left_tool, right_tool and bottom_tool
\* calls each group holds the tools of the calls made on it, most recent
\* first, so that a call changes its own group only.
C20_OwnGroupOnly ==
    /\ unwrap_or_default(left_tools).tools = MostRecentFirst("left")
    /\ unwrap_or_default(right_tools).tools = MostRecentFirst("right")
    /\ unwrap_or_default(bottom_tools).tools = MostRecentFirst("bottom")

====
